---- MODULE Spec2Model ----
(***************************************************************************)
(* microMONET host-side controller: the Protocol Client of src/mimo.py     *)
(* (class MicroMONET) over a serial transport, and the peer on the other   *)
(* end of the link.                                                        *)
(*                                                                         *)
(* Texts are sequences of one-character strings; bytes on the wire are     *)
(* their ASCII codes.  A float is modelled as an exact decimal             *)
(* [kind, neg, m, e] standing for (-1)^neg * m * 10^-e with no trailing    *)
(* zero in the fraction, which is what Python's float() and repr() agree   *)
(* on for the short decimals the protocol carries.                         *)
(***************************************************************************)
EXTENDS Integers, Sequences, FiniteSets, TLC

(***************************************************************************)
(* Bounds of the model.                                                    *)
(***************************************************************************)
\* calls a caller makes in one run
MaxCalls == 2
\* lines the peer prints while it boots, before its readiness line
MaxBoot == 2
\* transport failures injected in one run
MaxFaults == 1
\* choices the operator enters at the menu before choosing to exit
MaxTurns == 2
\* get_position calls of one slew before the operator aborts it
MaxPolls == 2

(***************************************************************************)
(* Characters, bytes and text.                                             *)
(***************************************************************************)
\* the printable ASCII characters, code 32 first (the backquote, code 96, is written <96>)
Printable ==
    <<" ", "!", "\"", "#", "$", "%", "&", "'", "(", ")", "*", "+", ",", "-", ".", "/",
    "0", "1", "2", "3", "4", "5", "6", "7", "8", "9", ":", ";", "<", "=", ">", "?", "@",
    "A", "B", "C", "D", "E", "F", "G", "H", "I", "J", "K", "L", "M", "N", "O", "P", "Q",
    "R", "S", "T", "U", "V", "W", "X", "Y", "Z", "[", "\\", "]", "^", "_", "<96>", "a", "b",
    "c", "d", "e", "f", "g", "h", "i", "j", "k", "l", "m", "n", "o", "p", "q", "r", "s",
    "t", "u", "v", "w", "x", "y", "z", "{", "|", "}", "~">>

\* str.encode() of one character: its ASCII code
Ord ==
    [c \in {Printable[i] : i \in 1..Len(Printable)} \cup {"\t", "\n", "\r"} |->
        IF c = "\t" THEN 9
        ELSE IF c = "\n" THEN 10
        ELSE IF c = "\r" THEN 13
        ELSE 31 + (CHOOSE i \in 1..Len(Printable) : Printable[i] = c)]

\* bytes.decode() of one byte
Chr ==
    [b \in (32..126) \cup {9, 10, 13} |->
        IF b = 9 THEN "\t"
        ELSE IF b = 10 THEN "\n"
        ELSE IF b = 13 THEN "\r"
        ELSE Printable[b - 31]]

Encode(text) == [i \in 1..Len(text) |-> Ord[text[i]]]

Decode(bytes) == [i \in 1..Len(bytes) |-> Chr[bytes[i]]]

NL == 10

IsSpace(c) == c \in {" ", "\t", "\n", "\r"}

Drop(s, n) == SubSeq(s, n + 1, Len(s))

\* positions of s that hold something other than whitespace
NonSpace(s) == {i \in 1..Len(s) : ~IsSpace(s[i])}

Least(S) == CHOOSE i \in S : \A j \in S : i <= j

Greatest(S) == CHOOSE i \in S : \A j \in S : i >= j

\* str.lstrip()
LStrip(s) == IF NonSpace(s) = {} THEN <<>> ELSE SubSeq(s, Least(NonSpace(s)), Len(s))

\* str.rstrip()
RStrip(s) == IF NonSpace(s) = {} THEN <<>> ELSE SubSeq(s, 1, Greatest(NonSpace(s)))

\* str.strip()
Strip(s) == CHOOSE r \in {RStrip(l) : l \in {LStrip(s)}} : TRUE

StartsWith(s, p) == Len(p) <= Len(s) /\ SubSeq(s, 1, Len(p)) = p

\* needle in haystack
Contains(haystack, needle) ==
    \E h \in {haystack} :
        \E i \in 0..(Len(h) - Len(needle)) :
            SubSeq(h, i + 1, i + Len(needle)) = needle

IsDigit(c) == c \in {"0", "1", "2", "3", "4", "5", "6", "7", "8", "9"}

DigitVal(c) == Ord[c] - 48

DigitChr(d) == Chr[48 + d]

\* str(int) of a natural number
RECURSIVE NatToStr(_)
NatToStr(n) == IF n < 10 THEN <<DigitChr(n)>> ELSE Append(NatToStr(n \div 10), DigitChr(n % 10))

\* f"{speed}" of an int
IntToStr(n) == IF n < 0 THEN <<"-">> \o NatToStr(0 - n) ELSE NatToStr(n)

(***************************************************************************)
(* String constants of mimo.py.                                            *)
(***************************************************************************)
GET_POS ==
    <<"G", "E", "T", "_", "P", "O", "S">>

GET_TEMP ==
    <<"G", "E", "T", "_", "T", "E", "M", "P">>

GET_HUMI ==
    <<"G", "E", "T", "_", "H", "U", "M", "I">>

LED_ON ==
    <<"L", "E", "D", "_", "O", "N">>

LED_OFF ==
    <<"L", "E", "D", "_", "O", "F", "F">>

CCD_ON ==
    <<"C", "C", "D", "_", "O", "N">>

CCD_OFF ==
    <<"C", "C", "D", "_", "O", "F", "F">>

ABORT ==
    <<"A", "B", "O", "R", "T">>

SET_SPEED_ ==
    <<"S", "E", "T", "_", "S", "P", "E", "E", "D", " ">>

ALT_ ==
    <<"A", "L", "T", ":">>

_AZ_ ==
    <<" ", "A", "Z", ":">>

ReadyPhrase ==
    <<"m", "i", "c", "r", "o", "M", "O", "N", "E", "T", " ", "i", "s", " ", "r", "e",
    "a", "d", "y", " ", "f", "o", "r", " ", "s", "o", "m", "e", " ", "s", "t", "a", "r",
    "g", "a", "z", "i", "n", "g", "!">>

PatAlt ==
    <<"A", "L", "T", ":", " ">>

PatAz ==
    <<" ", "A", "Z", ":", " ">>

PatAborted ==
    <<"A", "b", "o", "r", "t", "e", "d", " ", "a", "t", " ", "A", "L", "T", ":", " ">>

PatTemperature ==
    <<"T", "e", "m", "p", "e", "r", "a", "t", "u", "r", "e", ":", " ">>

PatHumidity ==
    <<"H", "u", "m", "i", "d", "i", "t", "y", ":", " ">>

MsgPosition ==
    <<"I", "n", "v", "a", "l", "i", "d", " ", "p", "o", "s", "i", "t", "i", "o", "n",
    " ", "r", "e", "s", "p", "o", "n", "s", "e", ":", " ">>

MsgTemperature ==
    <<"I", "n", "v", "a", "l", "i", "d", " ", "t", "e", "m", "p", "e", "r", "a", "t",
    "u", "r", "e", " ", "r", "e", "s", "p", "o", "n", "s", "e", ":", " ">>

MsgHumidity ==
    <<"I", "n", "v", "a", "l", "i", "d", " ", "h", "u", "m", "i", "d", "i", "t", "y",
    " ", "r", "e", "s", "p", "o", "n", "s", "e", ":", " ">>

MsgSpeed ==
    <<"S", "p", "e", "e", "d", " ", "m", "u", "s", "t", " ", "b", "e", " ", "b", "e",
    "t", "w", "e", "e", "n", " ", "1", " ", "a", "n", "d", " ", "1", "5", " ", "R", "P",
    "M", ".">>

MsgFloat ==
    <<"c", "o", "u", "l", "d", " ", "n", "o", "t", " ", "c", "o", "n", "v", "e", "r",
    "t", " ", "s", "t", "r", "i", "n", "g", " ", "t", "o", " ", "f", "l", "o", "a", "t",
    ":", " ">>

MsgPortNotOpen ==
    <<"A", "t", "t", "e", "m", "p", "t", "i", "n", "g", " ", "t", "o", " ", "u", "s",
    "e", " ", "a", " ", "p", "o", "r", "t", " ", "t", "h", "a", "t", " ", "i", "s", " ",
    "n", "o", "t", " ", "o", "p", "e", "n">>

MsgDisconnected ==
    <<"d", "e", "v", "i", "c", "e", " ", "d", "i", "s", "c", "o", "n", "n", "e", "c",
    "t", "e", "d">>

(***************************************************************************)
(* Floats: float(text) on a [\d.]+ group, and f"{x}" of a float.           *)
(***************************************************************************)
RECURSIVE CountDots(_)
CountDots(s) ==
    IF s = <<>> THEN 0 ELSE (IF Head(s) = "." THEN 1 ELSE 0) + CountDots(Tail(s))

\* the digits of s, dots dropped
RECURSIVE Digits(_)
Digits(s) ==
    IF s = <<>> THEN <<>>
    ELSE IF IsDigit(Head(s)) THEN <<Head(s)>> \o Digits(Tail(s))
    ELSE Digits(Tail(s))

\* digits after the dot
RECURSIVE FracLen(_)
FracLen(s) ==
    IF s = <<>> THEN 0
    ELSE IF Head(s) = "." THEN Len(Tail(s))
    ELSE FracLen(Tail(s))

RECURSIVE StrToNat(_)
StrToNat(s) ==
    IF s = <<>> THEN 0 ELSE 10 * StrToNat(SubSeq(s, 1, Len(s) - 1)) + DigitVal(s[Len(s)])

\* m * 10^-e with the fraction's trailing zeros removed
RECURSIVE Normalize(_, _)
Normalize(m, e) ==
    IF e > 0 /\ m % 10 = 0 THEN Normalize(m \div 10, e - 1) ELSE [m |-> m, e |-> e]

Finite(neg, m, e) ==
    [kind |-> "fin", neg |-> neg, m |-> Normalize(m, e).m, e |-> Normalize(m, e).e]

NaN == [kind |-> "nan", neg |-> FALSE, m |-> 0, e |-> 0]

Inf(neg) == [kind |-> "inf", neg |-> neg, m |-> 0, e |-> 0]

\* float() accepts a text of digits and dots iff it has a digit and at most one dot
FloatAccepts(s) == CountDots(s) <= 1 /\ Digits(s) # <<>>

\* a conversion that drops the digits after the dot
ParseFloatWhole(s) == Finite(FALSE, StrToNat(SubSeq(Digits(s), 1, Len(Digits(s)) - FracLen(s))), 0)

\* float(s) for a text float() accepts
ParseFloat(s) == Finite(FALSE, StrToNat(Digits(s)), FracLen(s))

RECURSIVE Zeros(_)
Zeros(n) == IF n <= 0 THEN <<>> ELSE <<"0">> \o Zeros(n - 1)

RECURSIVE StripZeros(_)
StripZeros(s) ==
    IF Len(s) > 1 /\ s[Len(s)] = "0" THEN StripZeros(SubSeq(s, 1, Len(s) - 1)) ELSE s

\* repr of a positive finite decimal m * 10^-e (Python's shortest repr: plain
\* notation for 1e-4 <= x < 1e16, exponent notation outside)
ReprPos(m, e) ==
    LET D == NatToStr(m)
        p == Len(D) - e
        sig == StripZeros(D)
        ex == p - 1
    IN  IF m = 0 THEN <<"0", ".", "0">>
        ELSE IF ex < -4 \/ ex >= 16 THEN
            <<Head(sig)>>
            \o (IF Len(sig) > 1 THEN <<".">> \o Tail(sig) ELSE <<>>)
            \o <<"e">>
            \o (IF ex < 0 THEN <<"-">> ELSE <<"+">>)
            \o (IF (IF ex < 0 THEN 0 - ex ELSE ex) < 10 THEN <<"0">> ELSE <<>>)
            \o NatToStr(IF ex < 0 THEN 0 - ex ELSE ex)
        ELSE IF e = 0 THEN D \o <<".", "0">>
        ELSE IF p > 0 THEN SubSeq(D, 1, p) \o <<".">> \o SubSeq(D, p + 1, Len(D))
        ELSE <<"0", ".">> \o Zeros(0 - p) \o D

\* f"{x}" of a float
FloatToStr(x) ==
    IF x.kind = "nan" THEN <<"n", "a", "n">>
    ELSE (IF x.neg THEN <<"-">> ELSE <<>>)
         \o (IF x.kind = "inf" THEN <<"i", "n", "f">> ELSE ReprPos(x.m, x.e))

(***************************************************************************)
(* re.match of the response grammars.                                      *)
(***************************************************************************)
\* length of the longest prefix of s matching [\d.]*
NumRun(s) ==
    LET other == {i \in 1..Len(s) : ~(IsDigit(s[i]) \/ s[i] = ".")}
    IN  IF other = {} THEN Len(s) ELSE Least(other) - 1

\* re.match(prefix + r"([\d.]+)", s): <<>> for None, else the group.  The
\* group is greedy; nothing follows it in the pattern, so it is the longest run.
Match1(prefix, s) ==
    IF ~StartsWith(s, prefix) THEN <<>>
    ELSE LET rest == Drop(s, Len(prefix))
             n == NumRun(rest)
         IN  IF n = 0 THEN <<>> ELSE <<SubSeq(rest, 1, n)>>

\* re.match(prefix + r"([\d.]+)" + middle + r"([\d.]+)", s): <<>> for None,
\* else the two groups.  middle starts with a character outside [\d.], so the
\* first group cannot match less than its longest run.
Match2(prefix, middle, s) ==
    IF ~StartsWith(s, prefix) THEN <<>>
    ELSE LET rest == Drop(s, Len(prefix))
             n == NumRun(rest)
             after == Drop(rest, n)
         IN  IF n = 0 \/ ~StartsWith(after, middle) THEN <<>>
             ELSE LET tail == Drop(after, Len(middle))
                      k == NumRun(tail)
                  IN  IF k = 0 THEN <<>> ELSE <<SubSeq(rest, 1, n), SubSeq(tail, 1, k)>>

(***************************************************************************)
(* The peer's lines.  The firmware is a black box: it may answer a command *)
(* with any of these, whatever the command was.                            *)
(***************************************************************************)
LinePos ==
    <<"A", "L", "T", ":", " ", "4", "5", ".", "0", " ", "A", "Z", ":", " ", "9", "0",
    ".", "0">>

LineAborted ==
    <<"A", "b", "o", "r", "t", "e", "d", " ", "a", "t", " ", "A", "L", "T", ":", " ",
    "3", "9", ".", "9", "0", " ", "A", "Z", ":", " ", "2", "4", "6", ".", "4", "5">>

LinePosTrailing ==
    <<"A", "L", "T", ":", " ", "1", "0", ".", "5", " ", "A", "Z", ":", " ", "0", "0",
    "7", " ", "d", "e", "g", "\r">>

LineGarbage ==
    <<"g", "a", "r", "b", "a", "g", "e">>

LineNotAnchored ==
    <<"a", "t", " ", "A", "L", "T", ":", " ", "1", ".", "0", " ", "A", "Z", ":", " ",
    "2", ".", "0">>

LineTemperature ==
    <<"T", "e", "m", "p", "e", "r", "a", "t", "u", "r", "e", ":", " ", "2", "5", ".",
    "0", " ", "C">>

LineHumidity ==
    <<"H", "u", "m", "i", "d", "i", "t", "y", ":", " ", "5", "0", ".", "0", " ", "%">>

LineTemp ==
    <<"T", "e", "m", "p", ":", " ", "2", "5">>

LineTemperatureDots ==
    <<"T", "e", "m", "p", "e", "r", "a", "t", "u", "r", "e", ":", " ", "1", ".", "2",
    ".", "3">>

LinePosDot ==
    <<"A", "L", "T", ":", " ", ".", " ", "A", "Z", ":", " ", "5">>

LineOk ==
    <<" ", " ", "O", "K", " ", "\r">>

LineEmpty ==
    <<>>

LineBooting ==
    <<"B", "o", "o", "t", "i", "n", "g", ".", ".", ".">>

LineNearReady ==
    <<"m", "i", "c", "r", "o", "M", "O", "N", "E", "T", " ", "i", "s", " ", "r", "e",
    "a", "d", "y", " ", "f", "o", "r", " ", "s", "o", "m", "e", " ", "s", "t", "a", "r",
    "g", "a", "z", "i", "n", "g">>

LineReady ==
    <<">", ">", " ", "m", "i", "c", "r", "o", "M", "O", "N", "E", "T", " ", "i", "s",
    " ", "r", "e", "a", "d", "y", " ", "f", "o", "r", " ", "s", "o", "m", "e", " ", "s",
    "t", "a", "r", "g", "a", "z", "i", "n", "g", "!", " ", "<", "<", "\r">>

\* what the peer may answer to a command
PeerLines ==
    {LinePos, LineAborted, LinePosTrailing, LineGarbage, LineNotAnchored, LineTemperature,
     LineHumidity, LineTemp, LineTemperatureDots, LinePosDot, LineOk, LineEmpty}

\* what the peer may print while it boots
BootLines == {LineBooting, LineNearReady}

(***************************************************************************)
(* Arguments the callers pass.                                             *)
(***************************************************************************)
CmdPing ==
    <<"P", "I", "N", "G", " ", "1">>

CommandArgs == {LED_ON, CmdPing}

SpeedArgs == {0, 1, 7, 15, 16}

FloatArgs == {Finite(FALSE, 45, 0), Finite(TRUE, 3990, 2), Finite(FALSE, 1, 5)}

\* positions the peer reports: 0.0, 45.0, 39.9, 246.45, 0.0001, 0.00001, -39.9
ReportArgs ==
    {Finite(FALSE, 0, 0), Finite(FALSE, 45, 0), Finite(FALSE, 399, 1),
     Finite(FALSE, 24645, 2), Finite(FALSE, 1, 4), Finite(FALSE, 1, 5),
     Finite(TRUE, 399, 1)}

(***************************************************************************)
(* State.                                                                  *)
(***************************************************************************)
VARIABLES
    port,   \* the serial port of self._aioserial: "open" or "closed"
    tx,     \* writes on the wire the peer has not taken yet, oldest first
    rx,     \* bytes the peer has sent and the client has not read yet
    rxTag,  \* per line of rx, its number in the peer's output and the write that elicited it
    peer,   \* the firmware: booting or ready, and the lines it printed while booting
    task,   \* per caller: where its current client call stands and what it returned
    call,   \* per caller: what its current call did on the transport
    g,      \* counters over the whole run
    main    \* the menu driver: where main() stands, and what it has done

vars == <<port, tx, rx, rxTag, peer, task, call, g, main>>

Tasks == {1, 2}

Other(t) == 3 - t

NoValue == <<>>

\* a caller outside any call
Idle ==
    [pc |-> "idle", op |-> "none", arg |-> NoValue, command |-> NoValue,
     exc |-> "none", msg |-> NoValue, ret |-> NoValue]

\* what a call has done on the transport so far
NoIO ==
    [writes |-> 0,          \* transport writes attempted
     reads |-> 0,           \* transport reads attempted
     sent |-> <<>>,         \* the bytes of each write that went out
     got |-> 0,             \* lines taken off rx
     line |-> <<>>,         \* the last line taken, as read
     seq |-> 0,             \* its number in the peer's output
     cause |-> 0,           \* the write that elicited it (0: none)
     wIdx |-> 0,            \* number of this call's write among all writes
     rIdx |-> 0,            \* number of this call's read among all command reads
     skipped |-> 0,         \* lines wait_for_ready read and passed over
     hits |-> 0,            \* lines taken that hold the readiness phrase
     failedAt |-> "none",   \* the transport operation that failed
     closedAtStart |-> FALSE,
     overlap |-> FALSE,     \* another caller was inside a call during this one
     firstAfterReady |-> FALSE]

\* main() of the menu driver; pc "none" when the client is used without it
NoMain ==
    [pc |-> "none",
     turns |-> 0,           \* choices entered at the menu
     choice |-> NoValue,    \* the last choice, stripped
     alt |-> NoValue,       \* the target of the slew under way
     az |-> NoValue,
     gets |-> 0,            \* get_position calls of this slew
     asks |-> 0,            \* times the operator was asked during this slew
     aborts |-> 0,          \* abort_slew calls of this slew
     said |-> NoValue,      \* the operator's last answer during this slew
     end |-> "none",        \* how the last polling loop ended
     caught |-> "none",     \* the exception the last option caught
     uncaught |-> "none",   \* the exception that ended main()
     closes |-> 0]          \* times close() was called

\* the serial port right after AioSerial(device, baudrate): open, nothing
\* written, nothing received, the firmware just reset
Init ==
    /\ port = "open"
    /\ tx = <<>>
    /\ rx = <<>>
    /\ rxTag = <<>>
    /\ peer = [phase |-> "boot", boots |-> 0]
    /\ task = [t \in Tasks |-> Idle]
    /\ call = [t \in Tasks |-> NoIO]
    /\ g = [calls |-> 0, nW |-> 0, nR |-> 0, emitted |-> 0, faults |-> 0,
            readySeq |-> 0, sinceReady |-> 0, valueErrors |-> 0]
    /\ main = NoMain

\* two callers share a client whose wait_for_ready has returned
InitConc ==
    /\ port = "open"
    /\ tx = <<>>
    /\ rx = <<>>
    /\ rxTag = <<>>
    /\ peer = [phase |-> "ready", boots |-> 0]
    /\ task = [t \in Tasks |-> Idle]
    /\ call = [t \in Tasks |-> NoIO]
    /\ g = [calls |-> 0, nW |-> 0, nR |-> 0, emitted |-> 1, faults |-> 0,
            readySeq |-> 1, sinceReady |-> 0, valueErrors |-> 0]
    /\ main = NoMain

(***************************************************************************)
(* The transport: pyserial's write, read_until and close as the client     *)
(* uses them.                                                              *)
(***************************************************************************)
\* index of the first line terminator in buf, 0 when there is none
LineEnd(buf) ==
    LET ends == {i \in 1..Len(buf) : buf[i] = NL}
    IN  IF ends = {} THEN 0 ELSE Least(ends)

\* read_until(b"\n") with no timeout: the bytes up to and including the
\* terminator, once there is one
ReadUntil(buf) == SubSeq(buf, 1, LineEnd(buf))

CanRead(buf) == LineEnd(buf) > 0

\* the terminator written as carriage return and line feed
CommandBytesCRLF(command) == Encode(command \o <<"\r", "\n">>)

\* (command + "\n").encode()
CommandBytes(command) == Encode(command \o <<"\n">>)

\* response.decode().strip()
Response(line) == CHOOSE r \in {Strip(text) : text \in {Decode(line)}} : TRUE


(***************************************************************************)
(* Results of a call.                                                      *)
(***************************************************************************)
Returned(v) == [exc |-> "none", msg |-> NoValue, ret |-> v]

Raised(e, m) == [exc |-> e, msg |-> m, ret |-> NoValue]

None == <<"None">>

\* pyserial's PortNotOpenError, a SerialException: raised by write and read on
\* a closed port before any byte moves
PortNotOpen == Raised("SerialException", MsgPortNotOpen)

\* a SerialException from a write or a read on an open port
Disconnected == Raised("SerialException", MsgDisconnected)

Str(text) == <<"str", text>>

\* float(g) as Python evaluates it on a regex group: the value, or ValueError
\* "could not convert string to float: '<group>'"
Float(group) ==
    IF FloatAccepts(group) THEN Returned(ParseFloat(group))
    ELSE Raised("ValueError", MsgFloat \o <<"'">> \o group \o <<"'">>)

\* return float(match.group(1)), float(match.group(2))
FloatPair(m) ==
    IF Float(m[1]).exc # "none" THEN Float(m[1])
    ELSE IF Float(m[2]).exc # "none" THEN Float(m[2])
    ELSE Returned(<<"pos", Float(m[1]).ret, Float(m[2]).ret>>)

\* get_position after send_command("GET_POS") returned response
get_position_result(response) ==
    LET normal == Match2(PatAlt, PatAz, response)
        aborted == Match2(PatAborted, PatAz, response)
    IN  IF normal # <<>> THEN FloatPair(normal)
        ELSE IF aborted # <<>> THEN FloatPair(aborted)
        ELSE Raised("ValueError", MsgPosition \o response)

\* get_temperature after send_command("GET_TEMP") returned response
get_temperature_result(response) ==
    LET match == Match1(PatTemperature, response)
    IN  IF match # <<>> THEN
            (IF Float(match[1]).exc # "none" THEN Float(match[1])
             ELSE Returned(<<"float", Float(match[1]).ret>>))
        ELSE Raised("ValueError", MsgTemperature \o response)

\* get_humidity after send_command("GET_HUMI") returned response
get_humidity_result(response) ==
    LET match == Match1(PatHumidity, response)
    IN  IF match # <<>> THEN
            (IF Float(match[1]).exc # "none" THEN Float(match[1])
             ELSE Returned(<<"float", Float(match[1]).ret>>))
        ELSE Raised("ValueError", MsgHumidity \o response)

\* an operation that insists on a non-empty acknowledgement
ContinueAcknowledged(op, response) ==
    CASE op = "send_command" -> Returned(Str(response))
      [] op = "get_position" -> get_position_result(response)
      [] op = "get_temperature" -> get_temperature_result(response)
      [] op = "get_humidity" -> get_humidity_result(response)
      [] OTHER -> IF response = <<>> THEN Raised("ValueError", response)
                  ELSE Returned(None)

\* what operation op does with the response send_command returned to it
Continue(op, response) ==
    CASE op = "send_command" -> Returned(Str(response))
      [] op = "get_position" -> get_position_result(response)
      [] op = "get_temperature" -> get_temperature_result(response)
      [] op = "get_humidity" -> get_humidity_result(response)
      [] OTHER -> Returned(None)

\* the upper bound taken as exclusive
SpeedInvalidOffByOne(speed) == speed < 1 \/ speed >= 15

\* if speed < 1 or speed > 15
SpeedInvalid(speed) == speed < 1 \/ speed > 15

\* the phrase compared without its last character
ReadyMatchLoose(response) == Contains(response, SubSeq(ReadyPhrase, 1, Len(ReadyPhrase) - 1))

\* if "microMONET is ready for some stargazing!" in response
ReadyMatch(response) == Contains(response, ReadyPhrase)

(***************************************************************************)
(* Entering and leaving a call.                                            *)
(***************************************************************************)
Busy(t) == task[t].pc # "idle"

\* a caller other than the menu driver makes MaxCalls calls at most; the
\* driver's calls are bounded by its turns
CanCall(t) == ~Busy(t) /\ (g.calls < MaxCalls \/ main.pc # "none")

\* caller t enters operation op, which will stand at pc
Enter(t, op, arg, pc, command) ==
    /\ task' = [task EXCEPT ![t] =
                   [pc |-> pc, op |-> op, arg |-> arg, command |-> command,
                    exc |-> "none", msg |-> NoValue, ret |-> NoValue]]
    /\ call' = [u \in Tasks |->
                   IF u = t THEN [NoIO EXCEPT !.closedAtStart = (port = "closed"),
                                              !.overlap = Busy(Other(t))]
                   ELSE IF Busy(u) THEN [call[u] EXCEPT !.overlap = TRUE]
                   ELSE call[u]]

\* caller t's operation returns or raises
Leave(t, result) ==
    task' = [task EXCEPT ![t] =
                [@ EXCEPT !.pc = "idle", !.exc = result.exc, !.msg = result.msg,
                          !.ret = result.ret]]

\* an operation that goes through send_command
Send(t, op, arg, command) ==
    /\ CanCall(t)
    /\ Enter(t, op, arg, "write", command)
    /\ g' = [g EXCEPT !.calls = @ + 1]
    /\ UNCHANGED <<port, tx, rx, rxTag, peer>>

(***************************************************************************)
(* The public operations of MicroMONET.                                    *)
(***************************************************************************)
send_command(t, command) == Send(t, "send_command", <<command>>, command)

wait_for_ready(t) ==
    /\ CanCall(t)
    /\ Enter(t, "wait_for_ready", NoValue, "wait", NoValue)
    /\ g' = [g EXCEPT !.calls = @ + 1]
    /\ UNCHANGED <<port, tx, rx, rxTag, peer>>

get_position(t) == Send(t, "get_position", NoValue, GET_POS)

\* the command written in the layout of the position response
set_position_spaced(t, altitude, azimuth) ==
    Send(t, "set_position", <<altitude, azimuth>>,
         PatAlt \o FloatToStr(altitude) \o PatAz \o FloatToStr(azimuth))

set_position(t, altitude, azimuth) ==
    Send(t, "set_position", <<altitude, azimuth>>,
         ALT_ \o FloatToStr(altitude) \o _AZ_ \o FloatToStr(azimuth))

set_speed(t, speed) ==
    IF SpeedInvalid(speed) THEN
        /\ CanCall(t)
        /\ call' = [call EXCEPT ![t] = [NoIO EXCEPT !.closedAtStart = (port = "closed")]]
        /\ task' = [task EXCEPT ![t] =
                       [pc |-> "idle", op |-> "set_speed", arg |-> <<speed>>,
                        command |-> NoValue, exc |-> "ValueError", msg |-> MsgSpeed,
                        ret |-> NoValue]]
        /\ g' = [g EXCEPT !.calls = @ + 1]
        /\ UNCHANGED <<port, tx, rx, rxTag, peer>>
    ELSE Send(t, "set_speed", <<speed>>, SET_SPEED_ \o IntToStr(speed))

led_on(t) == Send(t, "led_on", NoValue, LED_ON)

led_off(t) == Send(t, "led_off", NoValue, LED_OFF)

ccd_on(t) == Send(t, "ccd_on", NoValue, CCD_ON)

ccd_off(t) == Send(t, "ccd_off", NoValue, CCD_OFF)

get_temperature(t) == Send(t, "get_temperature", NoValue, GET_TEMP)

get_humidity(t) == Send(t, "get_humidity", NoValue, GET_HUMI)

abort_slew(t) == Send(t, "abort_slew", NoValue, ABORT)

\* self._aioserial.close(): no await inside, so it runs in one step
close(t) ==
    /\ CanCall(t)
    /\ port' = "closed"
    /\ call' = [call EXCEPT ![t] = [NoIO EXCEPT !.closedAtStart = (port = "closed")]]
    /\ task' = [task EXCEPT ![t] =
                   [pc |-> "idle", op |-> "close", arg |-> NoValue, command |-> NoValue,
                    exc |-> "none", msg |-> NoValue, ret |-> None]]
    /\ g' = [g EXCEPT !.calls = @ + 1]
    /\ UNCHANGED <<tx, rx, rxTag, peer>>

(***************************************************************************)
(* The awaits of send_command and wait_for_ready.                          *)
(***************************************************************************)
\* the line at the head of rx is taken by caller t
TakeLine(t) ==
    /\ CanRead(rx)
    /\ rx' = Drop(rx, LineEnd(rx))
    /\ rxTag' = Tail(rxTag)

Capped(n) == IF n >= 2 THEN 2 ELSE n + 1

\* 1 when the line, as sent by the peer, holds the readiness phrase
Hit(line) == IF Contains(Decode(line), ReadyPhrase) THEN 1 ELSE 0

\* a write that goes out whether or not the port is open
send_command_write_unchecked(t) ==
    /\ task[t].pc = "write"
    /\ tx' = Append(tx, [bytes |-> CommandBytes(task[t].command), idx |-> g.nW + 1])
    /\ g' = [g EXCEPT !.nW = @ + 1]
    /\ call' = [call EXCEPT ![t].writes = @ + 1,
                            ![t].sent = Append(@, CommandBytes(task[t].command)),
                            ![t].wIdx = g.nW + 1]
    /\ task' = [task EXCEPT ![t].pc = "read"]
    /\ UNCHANGED <<port, rx, rxTag, peer, main>>

\* await self._aioserial.write_async((command + "\n").encode())
send_command_write(t) ==
    /\ task[t].pc = "write"
    /\ IF port = "closed" THEN
           /\ Leave(t, PortNotOpen)
           /\ call' = [call EXCEPT ![t].writes = @ + 1, ![t].failedAt = "write"]
           /\ UNCHANGED <<tx, g>>
       ELSE
           /\ tx' = Append(tx, [bytes |-> CommandBytes(task[t].command), idx |-> g.nW + 1])
           /\ g' = [g EXCEPT !.nW = @ + 1]
           /\ call' = [call EXCEPT ![t].writes = @ + 1,
                                   ![t].sent = Append(@, CommandBytes(task[t].command)),
                                   ![t].wIdx = g.nW + 1]
           /\ task' = [task EXCEPT ![t].pc = "read"]
    /\ UNCHANGED <<port, rx, rxTag, peer, main>>

\* a failed write that is tried again instead of raising
send_command_write_fails_retry(t) ==
    /\ task[t].pc = "write"
    /\ port = "open"
    /\ g.faults < MaxFaults
    /\ call' = [call EXCEPT ![t].writes = @ + 1, ![t].failedAt = "write"]
    /\ g' = [g EXCEPT !.faults = @ + 1]
    /\ UNCHANGED <<port, tx, rx, rxTag, peer, task, main>>

\* the write raises: the device went away
send_command_write_fails(t) ==
    /\ task[t].pc = "write"
    /\ port = "open"
    /\ g.faults < MaxFaults
    /\ Leave(t, Disconnected)
    /\ call' = [call EXCEPT ![t].writes = @ + 1, ![t].failedAt = "write"]
    /\ g' = [g EXCEPT !.faults = @ + 1]
    /\ UNCHANGED <<port, tx, rx, rxTag, peer, main>>

\* a read that returns the line at the head of rx and leaves it there
send_command_read_peek(t) ==
    /\ task[t].pc = "read"
    /\ port = "open"
    /\ CanRead(rx)
    /\ Leave(t, Continue(task[t].op, Response(ReadUntil(rx))))
    /\ call' = [call EXCEPT ![t].reads = @ + 1,
                            ![t].got = @ + 1,
                            ![t].line = ReadUntil(rx),
                            ![t].seq = Head(rxTag).seq,
                            ![t].cause = Head(rxTag).cause,
                            ![t].rIdx = g.nR + 1]
    /\ g' = [g EXCEPT !.nR = @ + 1, !.sinceReady = Capped(@)]
    /\ UNCHANGED <<port, tx, rx, rxTag, peer, main>>

\* a read that is repeated when the operation rejects the response
send_command_read_retry(t) ==
    /\ task[t].pc = "read"
    /\ port = "open"
    /\ TakeLine(t)
    /\ IF Continue(task[t].op, Response(ReadUntil(rx))).exc = "ValueError"
       THEN UNCHANGED task
       ELSE Leave(t, Continue(task[t].op, Response(ReadUntil(rx))))
    /\ call' = [call EXCEPT ![t].reads = @ + 1,
                            ![t].got = @ + 1,
                            ![t].line = ReadUntil(rx),
                            ![t].seq = Head(rxTag).seq,
                            ![t].cause = Head(rxTag).cause,
                            ![t].rIdx = g.nR + 1]
    /\ g' = [g EXCEPT !.nR = @ + 1, !.sinceReady = Capped(@)]
    /\ UNCHANGED <<port, tx, peer, main>>

\* response = await self._aioserial.read_until_async(b"\n")
\* return response.decode().strip(), and what the operation does with it
send_command_read(t) ==
    /\ task[t].pc = "read"
    /\ IF port = "closed" THEN
           /\ Leave(t, PortNotOpen)
           /\ call' = [call EXCEPT ![t].reads = @ + 1, ![t].failedAt = "read"]
           /\ UNCHANGED <<rx, rxTag, g>>
       ELSE
           /\ TakeLine(t)
           /\ Leave(t, Continue(task[t].op, Response(ReadUntil(rx))))
           /\ call' = [call EXCEPT ![t].reads = @ + 1,
                                   ![t].got = @ + 1,
                                   ![t].line = ReadUntil(rx),
                                   ![t].seq = Head(rxTag).seq,
                                   ![t].cause = Head(rxTag).cause,
                                   ![t].rIdx = g.nR + 1,
                                   ![t].firstAfterReady = (g.readySeq > 0 /\ g.sinceReady = 0)]
           /\ g' = [g EXCEPT !.nR = @ + 1,
                             !.sinceReady = Capped(@),
                             !.valueErrors =
                                 IF Continue(task[t].op, Response(ReadUntil(rx))).exc = "ValueError"
                                 THEN @ + 1 ELSE @]
    /\ UNCHANGED <<port, tx, peer, main>>

\* the read raises: the device went away
send_command_read_fails(t) ==
    /\ task[t].pc = "read"
    /\ port = "open"
    /\ g.faults < MaxFaults
    /\ Leave(t, Disconnected)
    /\ call' = [call EXCEPT ![t].reads = @ + 1, ![t].failedAt = "read"]
    /\ g' = [g EXCEPT !.faults = @ + 1]
    /\ UNCHANGED <<port, tx, rx, rxTag, peer, main>>

\* a loop that gives up at the first line without the phrase
wait_for_ready_read_limited(t) ==
    /\ task[t].pc = "wait"
    /\ port = "open"
    /\ TakeLine(t)
    /\ IF ReadyMatch(Response(ReadUntil(rx))) THEN
           /\ Leave(t, Returned(None))
           /\ g' = [g EXCEPT !.readySeq = Head(rxTag).seq, !.sinceReady = 0]
       ELSE
           /\ Leave(t, Raised("TimeoutError", NoValue))
           /\ g' = [g EXCEPT !.sinceReady = Capped(@)]
    /\ call' = [call EXCEPT ![t].reads = @ + 1,
                            ![t].got = @ + 1,
                            ![t].line = ReadUntil(rx),
                            ![t].seq = Head(rxTag).seq,
                            ![t].cause = Head(rxTag).cause,
                            ![t].skipped = @ + 1 - Hit(ReadUntil(rx)),
                            ![t].hits = @ + Hit(ReadUntil(rx))]
    /\ UNCHANGED <<port, tx, peer, main>>

\* one turn of wait_for_ready's loop: read a line, return if it holds the phrase
wait_for_ready_read(t) ==
    /\ task[t].pc = "wait"
    /\ IF port = "closed" THEN
           /\ Leave(t, PortNotOpen)
           /\ call' = [call EXCEPT ![t].reads = @ + 1, ![t].failedAt = "read"]
           /\ UNCHANGED <<rx, rxTag, g>>
       ELSE
           /\ TakeLine(t)
           /\ IF ReadyMatch(Response(ReadUntil(rx))) THEN
                  /\ Leave(t, Returned(None))
                  /\ call' = [call EXCEPT ![t].reads = @ + 1,
                                          ![t].got = @ + 1,
                                          ![t].line = ReadUntil(rx),
                                          ![t].seq = Head(rxTag).seq,
                                          ![t].cause = Head(rxTag).cause,
                                          ![t].hits = @ + Hit(ReadUntil(rx))]
                  /\ g' = [g EXCEPT !.readySeq = Head(rxTag).seq, !.sinceReady = 0]
              ELSE
                  /\ call' = [call EXCEPT ![t].reads = @ + 1,
                                          ![t].got = @ + 1,
                                          ![t].line = ReadUntil(rx),
                                          ![t].seq = Head(rxTag).seq,
                                          ![t].cause = Head(rxTag).cause,
                                          ![t].skipped = @ + 1,
                                          ![t].hits = @ + Hit(ReadUntil(rx))]
                  /\ g' = [g EXCEPT !.sinceReady = Capped(@)]
                  /\ UNCHANGED task
    /\ UNCHANGED <<port, tx, peer, main>>

\* the read in wait_for_ready raises
wait_for_ready_read_fails(t) ==
    /\ task[t].pc = "wait"
    /\ port = "open"
    /\ g.faults < MaxFaults
    /\ Leave(t, Disconnected)
    /\ call' = [call EXCEPT ![t].reads = @ + 1, ![t].failedAt = "read"]
    /\ g' = [g EXCEPT !.faults = @ + 1]
    /\ UNCHANGED <<port, tx, rx, rxTag, peer, main>>

(***************************************************************************)
(* The peer: it prints while it boots, announces that it is ready, and     *)
(* from then on answers each command it receives with one line.            *)
(***************************************************************************)
Emit(line, cause) ==
    /\ rx' = rx \o Encode(line) \o <<NL>>
    /\ rxTag' = Append(rxTag, [seq |-> g.emitted + 1, cause |-> cause])
    /\ g' = [g EXCEPT !.emitted = @ + 1]

peer_boot ==
    /\ peer.phase = "boot"
    /\ peer.boots < MaxBoot
    /\ \E line \in BootLines : Emit(line, 0)
    /\ peer' = [peer EXCEPT !.boots = @ + 1]
    /\ UNCHANGED <<port, tx, task, call, main>>

peer_ready ==
    /\ peer.phase = "boot"
    /\ Emit(LineReady, 0)
    /\ peer' = [peer EXCEPT !.phase = "ready"]
    /\ UNCHANGED <<port, tx, task, call, main>>

peer_respond ==
    /\ peer.phase = "ready"
    /\ tx # <<>>
    /\ \E line \in PeerLines : Emit(line, Head(tx).idx)
    /\ tx' = Tail(tx)
    /\ UNCHANGED <<port, peer, task, call, main>>

Caller == 1

(***************************************************************************)
(* The menu driver: main() of test.py.  Each action runs main() from one   *)
(* await or input() to the next.                                           *)
(***************************************************************************)
client == <<port, tx, rx, rxTag, peer, task, call, g>>

\* str.upper() on ASCII text
Upper(text) ==
    [i \in 1..Len(text) |->
        IF Ord[text[i]] \in 97..122 THEN Chr[Ord[text[i]] - 32] ELSE text[i]]

\* float(input(...)) for a text in decimal notation with an optional sign:
\* the value, or ValueError
InputFloat(text) ==
    LET s == Strip(text)
        signed == s # <<>> /\ s[1] \in {"+", "-"}
        body == IF signed THEN Tail(s) ELSE s
    IN  IF body # <<>> /\ NumRun(body) = Len(body) /\ FloatAccepts(body)
        THEN Returned(Finite(signed /\ s[1] = "-", ParseFloat(body).m, ParseFloat(body).e))
        ELSE Raised("ValueError", MsgFloat \o <<"'">> \o text \o <<"'">>)

RECURSIVE Pow10(_)
Pow10(n) == IF n <= 0 THEN 1 ELSE 10 * Pow10(n - 1)

\* x * 10^E as an integer, for E >= x.e
Scaled(x, E) == (IF x.neg THEN 0 - 1 ELSE 1) * x.m * Pow10(E - x.e)

Distance(x, y) ==
    LET E == IF x.e >= y.e THEN x.e ELSE y.e
        d == Scaled(x, E) - Scaled(y, E)
    IN  [m |-> IF d < 0 THEN 0 - d ELSE d, e |-> E]

\* a test that also passes at 0.1 exactly
WithinOrAt(x, y) == Distance(x, y).m * 10 <= Pow10(Distance(x, y).e)

\* abs(x - y) < 0.1
Within(x, y) == Distance(x, y).m * 10 < Pow10(Distance(x, y).e)

\* what the operator types at "Enter your choice (1-10): "
ChoiceInputs ==
    {<<"1">>, <<"2">>, <<" ", "3">>, <<"4">>, <<"5">>, <<"6", " ">>, <<"7">>, <<"8">>,
     <<"9">>, <<"1", "0">>, <<"1", "1">>, <<"x">>, <<>>}

\* what the operator types for the target altitude and azimuth
AltInputs == {<<"4", "5">>, <<"3", "9", ".", "8", "5">>, <<"3", "9", ".", "8">>, <<"a", "b", "c">>}

AzInputs == {<<"9", "0", ".", "0">>, <<"2", "4", "6", ".", "5">>, <<>>}

\* what the operator types at "Type 'ABORT' to stop the slew or press Enter
\* to continue: "
AbortInputs == {<<>>, <<"a", "b", "o", "r", "t">>, <<" ", "A", "B", "O", "R", "T", " ">>, <<"n", "o">>}

\* the awaited call of the client has finished
Back == task[Caller].pc = "idle"

\* choice = input("Enter your choice (1-10): ").strip()
Chosen(c) ==
    /\ main.pc = "menu"
    /\ main.turns < MaxTurns
    /\ \E text \in ChoiceInputs : Strip(text) = c

\* main() moves on to pc with choice c
Turn(c, pc) ==
    [main EXCEPT !.pc = pc, !.turns = @ + 1, !.choice = c, !.caught = "none"]

\* a finally clause that is skipped when the try block raises
FinallyOnExit(exc, m) ==
    IF exc = "none" THEN
        /\ close(Caller)
        /\ main' = [m EXCEPT !.pc = "done", !.uncaught = exc, !.closes = @ + 1]
    ELSE
        /\ main' = [m EXCEPT !.pc = "done", !.uncaught = exc]
        /\ UNCHANGED client

\* finally: await micro_monet.close(); exc, if any, then leaves main()
Finally(exc, m) ==
    /\ close(Caller)
    /\ main' = [m EXCEPT !.pc = "done", !.uncaught = exc, !.closes = @ + 1]

\* no handler at all around options 2, 7 and 8
CatchesNothing(choice, exc) == FALSE

\* except ValueError, around options 2, 7 and 8 only
Catches(choice, exc) == choice \in {<<"2">>, <<"7">>, <<"8">>} /\ exc = "ValueError"

\* the awaited call raised exc: caught inside the loop, or out through finally
Except(m) ==
    IF Catches(m.choice, task[Caller].exc) THEN
        /\ main' = [m EXCEPT !.pc = "menu", !.caught = task[Caller].exc]
        /\ UNCHANGED client
    ELSE Finally(task[Caller].exc, m)

\* a start that goes to the menu at once
main_start_unready ==
    /\ main.pc = "start"
    /\ main' = [main EXCEPT !.pc = "menu"]
    /\ UNCHANGED client

\* await micro_monet.wait_for_ready()
main_start ==
    /\ main.pc = "start"
    /\ wait_for_ready(Caller)
    /\ main' = [main EXCEPT !.pc = "wait_for_ready"]

main_ready ==
    /\ main.pc = "wait_for_ready"
    /\ Back
    /\ IF task[Caller].exc = "none" THEN
           /\ main' = [main EXCEPT !.pc = "menu"]
           /\ UNCHANGED client
       ELSE Except(main)

\* choice == "1": await micro_monet.get_position()
main_option1 ==
    /\ Chosen(<<"1">>)
    /\ get_position(Caller)
    /\ main' = Turn(<<"1">>, "option1")

main_option1_returned ==
    /\ main.pc = "option1"
    /\ Back
    /\ IF task[Caller].exc = "none" THEN
           /\ main' = [main EXCEPT !.pc = "menu"]
           /\ UNCHANGED client
       ELSE Except(main)

\* choice == "2": the two inputs, then await micro_monet.set_position(...)
main_option2 ==
    /\ Chosen(<<"2">>)
    /\ \E a \in AltInputs, z \in AzInputs :
          IF InputFloat(a).exc # "none" \/ InputFloat(z).exc # "none" THEN
              /\ main' = [Turn(<<"2">>, "menu") EXCEPT !.caught = "ValueError"]
              /\ UNCHANGED client
          ELSE
              /\ set_position(Caller, InputFloat(a).ret, InputFloat(z).ret)
              /\ main' = [Turn(<<"2">>, "set_position") EXCEPT
                              !.alt = InputFloat(a).ret, !.az = InputFloat(z).ret,
                              !.gets = 0, !.asks = 0, !.aborts = 0, !.said = NoValue,
                              !.end = "none"]

\* set_position returned: the polling loop starts with get_position
main_slewing ==
    /\ main.pc = "set_position"
    /\ Back
    /\ IF task[Caller].exc = "none" THEN
           /\ get_position(Caller)
           /\ main' = [main EXCEPT !.pc = "get_position", !.gets = @ + 1]
       ELSE Except([main EXCEPT !.end = "raised"])

\* get_position returned inside the polling loop: the completion test
main_polled ==
    /\ main.pc = "get_position"
    /\ Back
    /\ IF task[Caller].exc # "none" THEN Except([main EXCEPT !.end = "raised"])
       ELSE IF Within(task[Caller].ret[2], main.alt) /\ Within(task[Caller].ret[3], main.az) THEN
           /\ main' = [main EXCEPT !.pc = "menu", !.end = "completed"]
           /\ UNCHANGED client
       ELSE
           /\ main' = [main EXCEPT !.pc = "input"]
           /\ UNCHANGED client

\* abort = input(...).strip(): abort_slew, or round the loop again
main_answer ==
    /\ main.pc = "input"
    /\ \E text \in AbortInputs :
          IF Upper(Strip(text)) = ABORT THEN
              /\ abort_slew(Caller)
              /\ main' = [main EXCEPT !.pc = "abort_slew", !.asks = @ + 1, !.said = text,
                                      !.aborts = @ + 1]
          ELSE
              /\ main.gets < MaxPolls
              /\ get_position(Caller)
              /\ main' = [main EXCEPT !.pc = "get_position", !.asks = @ + 1, !.said = text,
                                      !.gets = @ + 1]

main_aborted ==
    /\ main.pc = "abort_slew"
    /\ Back
    /\ IF task[Caller].exc = "none" THEN
           /\ main' = [main EXCEPT !.pc = "menu", !.end = "aborted"]
           /\ UNCHANGED client
       ELSE Except([main EXCEPT !.end = "raised"])

\* choice == "3"
main_option3 ==
    /\ Chosen(<<"3">>)
    /\ led_on(Caller)
    /\ main' = Turn(<<"3">>, "fixed")

\* choice == "4"
main_option4 ==
    /\ Chosen(<<"4">>)
    /\ led_off(Caller)
    /\ main' = Turn(<<"4">>, "fixed")

\* choice == "5"
main_option5 ==
    /\ Chosen(<<"5">>)
    /\ ccd_on(Caller)
    /\ main' = Turn(<<"5">>, "fixed")

\* choice == "6"
main_option6 ==
    /\ Chosen(<<"6">>)
    /\ ccd_off(Caller)
    /\ main' = Turn(<<"6">>, "fixed")

\* choice == "9"
main_option9 ==
    /\ Chosen(<<"9">>)
    /\ abort_slew(Caller)
    /\ main' = Turn(<<"9">>, "fixed")

main_fixed_returned ==
    /\ main.pc = "fixed"
    /\ Back
    /\ IF task[Caller].exc = "none" THEN
           /\ main' = [main EXCEPT !.pc = "menu"]
           /\ UNCHANGED client
       ELSE Except(main)

\* choice == "7"
main_option7 ==
    /\ Chosen(<<"7">>)
    /\ get_temperature(Caller)
    /\ main' = Turn(<<"7">>, "sensor")

\* choice == "8"
main_option8 ==
    /\ Chosen(<<"8">>)
    /\ get_humidity(Caller)
    /\ main' = Turn(<<"8">>, "sensor")

main_sensor_returned ==
    /\ main.pc = "sensor"
    /\ Back
    /\ IF task[Caller].exc = "none" THEN
           /\ main' = [main EXCEPT !.pc = "menu"]
           /\ UNCHANGED client
       ELSE Except(main)

\* choice == "10": break, then the finally clause
main_exit ==
    /\ main.pc = "menu"
    /\ \E text \in ChoiceInputs : Strip(text) = <<"1", "0">>
    /\ Finally("none", [main EXCEPT !.choice = <<"1", "0">>, !.caught = "none"])

Options ==
    {<<"1">>, <<"2">>, <<"3">>, <<"4">>, <<"5">>, <<"6">>, <<"7">>, <<"8">>, <<"9">>,
     <<"1", "0">>}

\* else: print("Invalid choice! ...")
main_invalid ==
    /\ main.pc = "menu"
    /\ main.turns < MaxTurns
    /\ \E text \in ChoiceInputs :
          /\ Strip(text) \notin Options
          /\ main' = Turn(Strip(text), "menu")
    /\ UNCHANGED client

\* the line ALT: {a} AZ: {z}
Report(a, z) == PatAlt \o FloatToStr(a) \o PatAz \o FloatToStr(z)

\* the peer answers a command with its position, the two numbers printed
\* as f"{x}" prints them
peer_report ==
    /\ peer.phase = "ready"
    /\ tx # <<>>
    /\ \E a, z \in ReportArgs : Emit(Report(a, z), Head(tx).idx)
    /\ tx' = Tail(tx)
    /\ UNCHANGED <<port, peer, task, call, main>>

(***************************************************************************)
(* Specifications.                                                         *)
(***************************************************************************)

\* the calls of every operation but close
Calls(t) ==
    \/ \E command \in CommandArgs : send_command(t, command) /\ UNCHANGED main
    \/ wait_for_ready(t) /\ UNCHANGED main
    \/ get_position(t) /\ UNCHANGED main
    \/ \E altitude, azimuth \in FloatArgs :
          set_position(t, altitude, azimuth) /\ UNCHANGED main
    \/ \E speed \in SpeedArgs : set_speed(t, speed) /\ UNCHANGED main
    \/ led_on(t) /\ UNCHANGED main
    \/ led_off(t) /\ UNCHANGED main
    \/ ccd_on(t) /\ UNCHANGED main
    \/ ccd_off(t) /\ UNCHANGED main
    \/ get_temperature(t) /\ UNCHANGED main
    \/ get_humidity(t) /\ UNCHANGED main
    \/ abort_slew(t) /\ UNCHANGED main

Peer ==
    \/ peer_boot
    \/ peer_ready
    \/ peer_respond

\* one caller calling the operations one after the other on an open port
\* over a transport that does not fail
Next ==
    \/ Calls(Caller)
    \/ send_command_write(Caller)
    \/ send_command_read(Caller)
    \/ wait_for_ready_read(Caller)
    \/ Peer

Spec == Init /\ [][Next]_vars

\* the same caller, who may also close the client, over a transport whose
\* writes and reads may fail
NextFault ==
    \/ Calls(Caller)
    \/ close(Caller) /\ UNCHANGED main
    \/ send_command_write(Caller)
    \/ send_command_write_fails(Caller)
    \/ send_command_read(Caller)
    \/ send_command_read_fails(Caller)
    \/ wait_for_ready_read(Caller)
    \/ wait_for_ready_read_fails(Caller)
    \/ Peer

SpecFault == Init /\ [][NextFault]_vars

\* two callers sharing one client, each awaiting send_command
NextConc ==
    \/ \E t \in Tasks :
          \/ \E command \in CommandArgs : send_command(t, command) /\ UNCHANGED main
          \/ send_command_write(t)
          \/ send_command_read(t)
    \/ peer_respond

SpecConc == InitConc /\ [][NextConc]_vars

\* one caller of get_position, once wait_for_ready has returned, and a peer
\* that reports positions
NextRound ==
    \/ get_position(Caller) /\ UNCHANGED main
    \/ send_command_write(Caller)
    \/ send_command_read(Caller)
    \/ peer_report

SpecRound == InitConc /\ [][NextRound]_vars

\* asyncio.run(main()) right after MicroMONET(device, baudrate)
InitMain ==
    /\ port = "open"
    /\ tx = <<>>
    /\ rx = <<>>
    /\ rxTag = <<>>
    /\ peer = [phase |-> "boot", boots |-> 0]
    /\ task = [t \in Tasks |-> Idle]
    /\ call = [t \in Tasks |-> NoIO]
    /\ g = [calls |-> 0, nW |-> 0, nR |-> 0, emitted |-> 0, faults |-> 0,
            readySeq |-> 0, sinceReady |-> 0, valueErrors |-> 0]
    /\ main = [NoMain EXCEPT !.pc = "start"]

\* the menu driver as the only user of the client, over a transport whose
\* writes and reads may fail
NextMain ==
    \/ main_start
    \/ main_ready
    \/ main_option1
    \/ main_option1_returned
    \/ main_option2
    \/ main_slewing
    \/ main_polled
    \/ main_answer
    \/ main_aborted
    \/ main_option3
    \/ main_option4
    \/ main_option5
    \/ main_option6
    \/ main_option7
    \/ main_option8
    \/ main_option9
    \/ main_fixed_returned
    \/ main_sensor_returned
    \/ main_exit
    \/ main_invalid
    \/ send_command_write(Caller)
    \/ send_command_write_fails(Caller)
    \/ send_command_read(Caller)
    \/ send_command_read_fails(Caller)
    \/ wait_for_ready_read(Caller)
    \/ wait_for_ready_read_fails(Caller)
    \/ Peer

SpecMain == InitMain /\ [][NextMain]_vars

\* one caller of wait_for_ready and send_command on an open port over a
\* transport that does not fail
NextLive ==
    \/ \E command \in CommandArgs : send_command(Caller, command) /\ UNCHANGED main
    \/ wait_for_ready(Caller) /\ UNCHANGED main
    \/ send_command_write(Caller)
    \/ send_command_read(Caller)
    \/ wait_for_ready_read(Caller)
    \/ Peer

\* read_until_async returns once a whole line has arrived, and the loop of
\* wait_for_ready then runs its next turn
Fairness == WF_vars(wait_for_ready_read(Caller))

SpecLive == Init /\ [][NextLive]_vars /\ Fairness

(***************************************************************************)
(* Properties.                                                             *)
(***************************************************************************)
Done(t) == task[t].pc = "idle" /\ task[t].op # "none"

\* r is s without its leading and trailing whitespace, and nothing else changed
IsStripOf(r, s) ==
    \E i, j \in 0..Len(s) :
        /\ i <= j
        /\ r = SubSeq(s, i + 1, j)
        /\ \A k \in 1..i : IsSpace(s[k])
        /\ \A k \in (j + 1)..Len(s) : IsSpace(s[k])
        /\ r # <<>> => ~IsSpace(r[1]) /\ ~IsSpace(r[Len(r)])
    \/ (r = <<>> /\ \A k \in 1..Len(s) : IsSpace(s[k]))

\* the bytes of text c followed by one line feed
Terminated(c) == [i \in 1..(Len(c) + 1) |-> IF i <= Len(c) THEN Ord[c[i]] ELSE 10]

\* C1: one call of send_command(c) writes once, the bytes of c followed by a
\* single newline, then reads once (never before the write), and returns the
\* text of the line read with its leading and trailing whitespace stripped
\* and nothing else changed.
C1_SendCommand ==
    \A t \in Tasks :
        task[t].op = "send_command" =>
            /\ call[t].writes <= 1
            /\ call[t].reads <= call[t].writes
            /\ task[t].pc = "write" => call[t].writes = 0 /\ call[t].sent = <<>>
            /\ task[t].pc = "read" => call[t].writes = 1 /\ call[t].reads = 0
            /\ call[t].writes = 1 => call[t].sent = <<Terminated(task[t].arg[1])>>
            /\ task[t].pc = "idle" =>
                   /\ call[t].writes = 1
                   /\ call[t].reads = 1
                   /\ call[t].got = 1
                   /\ task[t].exc = "none"
                   /\ task[t].ret[1] = "str"
                   /\ IsStripOf(task[t].ret[2], Decode(call[t].line))

\* send_command("LED_ON") has returned OK from the line "  OK \r\n"
C1_Witness ==
    /\ Done(Caller)
    /\ task[Caller].op = "send_command"
    /\ task[Caller].arg = <<LED_ON>>
    /\ call[Caller].sent = <<Encode(LED_ON) \o <<10>>>>
    /\ call[Caller].line = Encode(LineOk) \o <<10>>
    /\ task[Caller].ret = Str(<<"O", "K">>)

\* the result of caller t's call was computed from the line its read took
Delivered(t) ==
    IF task[t].exc = "none" THEN
        task[t].op = "send_command" => IsStripOf(task[t].ret[2], Decode(call[t].line))
    ELSE
        \A prefix \in {MsgPosition, MsgTemperature, MsgHumidity} :
            StartsWith(task[t].msg, prefix) =>
                IsStripOf(Drop(task[t].msg, Len(prefix)), Decode(call[t].line))

\* C2: with one sequential caller, command writes and response reads
\* alternate, starting with a write: between two writes exactly one line is
\* read, and it is delivered to the operation that made the earlier write,
\* also when an operation ends in a Parse Error.
C2_Alternation ==
    /\ g.nR <= g.nW
    /\ g.nW <= g.nR + 1
    /\ (g.nW = g.nR + 1) <=> (task[Caller].pc = "read")
    /\ \A t \in Tasks :
           /\ task[t].pc = "read" => call[t].wIdx = g.nW
           /\ Done(t) /\ call[t].wIdx > 0 =>
                  /\ call[t].rIdx = call[t].wIdx
                  /\ call[t].reads = 1
                  /\ Delivered(t)

\* the second of two exchanges has ended well after an operation ended in a
\* Parse Error
C2_Witness ==
    /\ Done(Caller)
    /\ g.valueErrors >= 1
    /\ g.nW = 2
    /\ g.nR = 2
    /\ call[Caller].rIdx = 2
    /\ task[Caller].exc = "none"

\* C3: get_position sends exactly GET_POS; on a response matching
\* ALT: <float> AZ: <float> at its start it returns that pair, else on one
\* matching Aborted at ALT: <float> AZ: <float> it returns that pair, else it
\* fails with a Parse Error carrying the response text.
C3_GetPosition ==
    \A t \in Tasks :
        task[t].op = "get_position" =>
            /\ call[t].writes = 1 => call[t].sent = <<Terminated(GET_POS)>>
            /\ Done(t) =>
                   LET r == Response(call[t].line)
                       normal == Match2(PatAlt, PatAz, r)
                       aborted == Match2(PatAborted, PatAz, r)
                   IN  IF normal # <<>> THEN
                           /\ task[t].exc = "none"
                           /\ task[t].ret = <<"pos", ParseFloat(normal[1]), ParseFloat(normal[2])>>
                       ELSE IF aborted # <<>> THEN
                           /\ task[t].exc = "none"
                           /\ task[t].ret = <<"pos", ParseFloat(aborted[1]), ParseFloat(aborted[2])>>
                       ELSE
                           /\ task[t].exc = "ValueError"
                           /\ task[t].msg = MsgPosition \o r

\* the decimal digits of an rpm in 1..15
Rpm(n) == IF n < 10 THEN <<Chr[48 + n]>> ELSE <<"1", Chr[48 + n - 10]>>

\* C4: set_speed(rpm) with rpm < 1 or rpm > 15 fails with a Validation Error
\* and neither writes nor reads; with 1 <= rpm <= 15 it succeeds and writes
\* exactly SET_SPEED <rpm>.
C4_SetSpeed ==
    \A t \in Tasks :
        task[t].op = "set_speed" =>
            IF task[t].arg[1] < 1 \/ task[t].arg[1] > 15 THEN
                /\ Done(t)
                /\ task[t].exc = "ValueError"
                /\ task[t].msg = MsgSpeed
                /\ call[t].writes = 0
                /\ call[t].reads = 0
                /\ call[t].sent = <<>>
                /\ call[t].got = 0
            ELSE
                /\ task[t].exc = "none"
                /\ call[t].writes <= 1
                /\ call[t].writes = 1 =>
                       call[t].sent = <<Terminated(SET_SPEED_ \o Rpm(task[t].arg[1]))>>
                /\ Done(t) => call[t].writes = 1 /\ call[t].reads = 1 /\ task[t].ret = None

\* set_speed(15) has returned, having written SET_SPEED 15
C4_Witness ==
    /\ Done(Caller)
    /\ task[Caller].op = "set_speed"
    /\ task[Caller].arg = <<15>>
    /\ task[Caller].exc = "none"
    /\ call[Caller].sent = <<Encode(SET_SPEED_ \o <<"1", "5">>) \o <<10>>>>

\* what a sensor query returns on a response, by the grammar of the
\* operation invoked
SensorClaim(t, command, pattern, message) ==
    /\ call[t].writes = 1 => call[t].sent = <<Terminated(command)>>
    /\ Done(t) =>
           LET r == Response(call[t].line)
               match == Match1(pattern, r)
           IN  IF match # <<>> THEN
                   /\ task[t].exc = "none"
                   /\ task[t].ret = <<"float", ParseFloat(match[1])>>
               ELSE
                   /\ task[t].exc = "ValueError"
                   /\ task[t].msg = message \o r

\* C5: get_temperature sends GET_TEMP and get_humidity sends GET_HUMI; each
\* returns the numeric field of a response that begins with its own
\* grammar, and fails with a Parse Error carrying the response text on any
\* other response.
C5_Sensors ==
    \A t \in Tasks :
        /\ task[t].op = "get_temperature" =>
               SensorClaim(t, GET_TEMP, PatTemperature, MsgTemperature)
        /\ task[t].op = "get_humidity" =>
               SensorClaim(t, GET_HUMI, PatHumidity, MsgHumidity)

\* C6: wait_for_ready writes nothing; it returns only on a line that holds
\* the readiness phrase, having taken the lines up to and including the
\* first such line and no more, so that the first send_command afterwards
\* reads the line that follows the readiness line.
C6_WaitForReady ==
    \A t \in Tasks :
        /\ task[t].op = "wait_for_ready" =>
               /\ call[t].writes = 0
               /\ call[t].sent = <<>>
               /\ task[t].pc = "wait" => call[t].hits = 0 /\ call[t].got = call[t].skipped
               /\ Done(t) =>
                      /\ task[t].exc = "none"
                      /\ call[t].hits = 1
                      /\ Contains(Decode(call[t].line), ReadyPhrase)
                      /\ call[t].got = call[t].skipped + 1
                      /\ call[t].seq = g.readySeq
        /\ Done(t) /\ call[t].firstAfterReady => call[t].seq = g.readySeq + 1

\* send_command has read the line after the readiness line, which
\* wait_for_ready had reached past a boot line
C6_Witness ==
    /\ Done(Caller)
    /\ task[Caller].op = "send_command"
    /\ call[Caller].firstAfterReady
    /\ g.readySeq = 2
    /\ call[Caller].seq = 3

\* C7: nothing in the client keeps two callers apart.  A caller of
\* send_command is never given an error, whatever line it was handed; a
\* caller whose call did not overlap another call gets the line its own
\* command elicited, so a line elicited by the other caller's command is
\* returned only when the calls overlap (C7_Witness: write A, write B, read
\* by B, read by A).
C7_Concurrent ==
    \A t \in Tasks :
        Done(t) =>
            /\ task[t].exc = "none"
            /\ task[t].ret[1] = "str"
            /\ IsStripOf(task[t].ret[2], Decode(call[t].line))
            /\ ~call[t].overlap => call[t].cause = call[t].wIdx /\ call[t].rIdx = call[t].wIdx

\* write by 1, write by 2, read by 2, read by 1: each caller has returned,
\* without error, the line the other caller's command elicited
C7_Witness ==
    /\ Done(1)
    /\ Done(2)
    /\ call[1].wIdx = 1
    /\ call[2].wIdx = 2
    /\ call[2].rIdx = 1
    /\ call[1].rIdx = 2
    /\ call[2].cause = call[1].wIdx
    /\ call[1].cause = call[2].wIdx
    /\ task[1].exc = "none"
    /\ task[2].exc = "none"

\* the error of a transport call on a closed port
PortNotOpenError(t) == task[t].exc = "SerialException" /\ task[t].msg = MsgPortNotOpen

\* caller t's call, begun after close(), moved no byte
NoBytesMoved(t) == call[t].sent = <<>> /\ call[t].got = 0

\* C8 as claimed: after close(), any further operation fails with a
\* Closed-Resource Error and performs no transport write or read.  (The
\* error of the closed port is taken for the Closed-Resource Error.)
C8_ClosedResourceError ==
    \A t \in Tasks :
        call[t].closedAtStart /\ task[t].op # "close" =>
            /\ NoBytesMoved(t)
            /\ Done(t) => PortNotOpenError(t)

\* C8 as amended: the client keeps no state of its own for Closed and has no
\* Closed-Resource Error.  Once close() has run the port stays closed, and a
\* further operation moves no byte: set_speed with an rpm outside 1..15
\* fails with its Validation Error before it touches the transport, a
\* second close() returns, and every other operation makes one transport
\* call, which the closed port rejects with the transport's own error.
C8_AfterClose ==
    /\ [](\A t \in Tasks :
            call[t].closedAtStart =>
                /\ NoBytesMoved(t)
                /\ Done(t) =>
                       IF task[t].op = "close" THEN task[t].exc = "none"
                       ELSE IF task[t].op = "set_speed"
                               /\ (task[t].arg[1] < 1 \/ task[t].arg[1] > 15) THEN
                           /\ task[t].exc = "ValueError"
                           /\ task[t].msg = MsgSpeed
                           /\ call[t].writes + call[t].reads = 0
                       ELSE
                           /\ PortNotOpenError(t)
                           /\ call[t].writes + call[t].reads = 1)
    /\ [][port = "closed" => port' = "closed"]_vars

\* get_position, called after close(), has failed on its write, which the
\* closed port rejected
C8_Witness ==
    /\ Done(Caller)
    /\ call[Caller].closedAtStart
    /\ task[Caller].op = "get_position"
    /\ PortNotOpenError(Caller)
    /\ call[Caller].failedAt = "write"
    /\ NoBytesMoved(Caller)

\* C9: no operation but wait_for_ready writes more than once or reads more
\* than once in one call; a failed write is followed by no read; a failure
\* of the write or of the read ends the call at once in a Transport Error,
\* the command not sent again.
C9_NoRetries ==
    \A t \in Tasks :
        task[t].op \notin {"none", "wait_for_ready"} =>
            /\ call[t].writes <= 1
            /\ call[t].reads <= 1
            /\ Len(call[t].sent) <= 1
            /\ call[t].got <= 1
            /\ call[t].failedAt = "write" =>
                   /\ Done(t)
                   /\ task[t].exc = "SerialException"
                   /\ call[t].reads = 0
                   /\ call[t].sent = <<>>
            /\ call[t].failedAt = "read" =>
                   /\ Done(t)
                   /\ task[t].exc = "SerialException"
                   /\ call[t].writes = 1
                   /\ Len(call[t].sent) = 1
                   /\ call[t].got = 0
            /\ task[t].exc = "SerialException" => call[t].failedAt # "none"

\* the read of a command that went out has failed on an open port
C9_Witness ==
    /\ Done(Caller)
    /\ port = "open"
    /\ g.faults = 1
    /\ call[Caller].failedAt = "read"
    /\ Len(call[Caller].sent) = 1
    /\ task[Caller].exc = "SerialException"

Waiting(t) == task[t].pc = "wait"

\* a line holding the readiness phrase has arrived and is not read yet
ReadyPending == Contains(Decode(rx), ReadyPhrase)

ReadyReturned(t) == Done(t) /\ task[t].op = "wait_for_ready" /\ task[t].exc = "none"

\* C10: wait_for_ready waits without bound.  Once a line holding the
\* readiness phrase has arrived, the waiting caller eventually returns; and
\* the wait ends in no other way than by reading such a line, however many
\* other lines are read.
C10_UnboundedWait ==
    /\ (Waiting(Caller) /\ ReadyPending) ~> ReadyReturned(Caller)
    /\ [][Waiting(Caller) /\ ~Waiting(Caller)' =>
              /\ Contains(Decode(ReadUntil(rx)), ReadyPhrase)
              /\ ReadyReturned(Caller)']_vars

\* wait_for_ready has returned after passing over two lines without the phrase
C10_Witness ==
    /\ ReadyReturned(Caller)
    /\ call[Caller].skipped >= 2
    /\ call[Caller].hits = 1

\* the operations that send a fixed word and discard the answer
FixedCommand ==
    [led_on |-> LED_ON, led_off |-> LED_OFF, ccd_on |-> CCD_ON, ccd_off |-> CCD_OFF,
     abort_slew |-> ABORT]

\* C11: led_on, led_off, ccd_on, ccd_off and abort_slew each write exactly
\* their fixed word (LED_ON, LED_OFF, CCD_ON, CCD_OFF, ABORT), take exactly one
\* response line, and return normally whatever that line holds.
C11_FixedCommands ==
    \A t \in Tasks :
        task[t].op \in DOMAIN FixedCommand =>
            /\ call[t].writes <= 1
            /\ call[t].reads <= call[t].writes
            /\ call[t].writes = 1 => call[t].sent = <<Terminated(FixedCommand[task[t].op])>>
            /\ Done(t) =>
                   /\ call[t].writes = 1
                   /\ call[t].reads = 1
                   /\ call[t].got = 1
                   /\ task[t].exc = "none"
                   /\ task[t].ret = None

\* abort_slew has returned normally from an empty line
C11_Witness ==
    /\ Done(Caller)
    /\ task[Caller].op = "abort_slew"
    /\ task[Caller].exc = "none"
    /\ call[Caller].sent = <<Encode(ABORT) \o <<10>>>>
    /\ call[Caller].line = <<10>>

\* f"{x}" for the floats of FloatArgs, as Python prints them
Formatted(x) ==
    CASE x = Finite(FALSE, 45, 0) -> <<"4", "5", ".", "0">>
      [] x = Finite(TRUE, 3990, 2) -> <<"-", "3", "9", ".", "9">>
      [] x = Finite(FALSE, 1, 5) -> <<"1", "e", "-", "0", "5">>

\* C12: set_position(altitude, azimuth) makes one exchange: it writes
\* ALT:<altitude> AZ:<azimuth> once, reads one line and returns whatever the
\* line holds; it writes nothing else (no GET_POS) and reads nothing more.
C12_SetPosition ==
    \A t \in Tasks :
        task[t].op = "set_position" =>
            /\ call[t].writes <= 1
            /\ call[t].reads <= call[t].writes
            /\ call[t].writes = 1 =>
                   call[t].sent =
                       <<Terminated(<<"A", "L", "T", ":">> \o Formatted(task[t].arg[1])
                                    \o <<" ", "A", "Z", ":">> \o Formatted(task[t].arg[2]))>>
            /\ Done(t) =>
                   /\ call[t].writes = 1
                   /\ call[t].reads = 1
                   /\ call[t].got = 1
                   /\ task[t].exc = "none"
                   /\ task[t].ret = None

\* set_position(45.0, -39.9) has returned from a line that reports another
\* position
C12_Witness ==
    /\ Done(Caller)
    /\ task[Caller].op = "set_position"
    /\ task[Caller].arg = <<Finite(FALSE, 45, 0), Finite(TRUE, 3990, 2)>>
    /\ call[Caller].sent = <<Encode(<<"A", "L", "T", ":", "4", "5", ".", "0", " ", "A", "Z",
                                      ":", "-", "3", "9", ".", "9">>) \o <<10>>>>
    /\ call[Caller].line = Encode(LineAborted) \o <<10>>
    /\ task[Caller].exc = "none"

\* the bytes of the line ALT: {a} AZ: {z} as the peer sends it
Reported(a, z) == Encode(Report(a, z)) \o <<10>>

\* f"{x}" is made of digits and a dot only
Plain(x) == \A i \in 1..Len(FloatToStr(x)) : IsDigit(FloatToStr(x)[i]) \/ FloatToStr(x)[i] = "."

\* C13 as stated: for every pair (a, z) of finite non-negative floats, from the
\* response ALT: {a} AZ: {z} get_position returns (a, z).
C13_RoundTrip ==
    \A t \in Tasks : \A a, z \in ReportArgs :
        (/\ Done(t)
         /\ task[t].op = "get_position"
         /\ ~a.neg /\ ~z.neg
         /\ call[t].line = Reported(a, z)) =>
            /\ task[t].exc = "none"
            /\ task[t].ret = <<"pos", a, z>>

\* C13: from the response ALT: {a} AZ: {z}, get_position returns (a, z)
\* when both numbers print as digits and a dot.  When a prints otherwise, or
\* z prints with a sign, it fails with the Parse Error that carries the
\* response; when z prints in exponent notation it returns a pair whose
\* second number is not z.
C13_RoundTripPlain ==
    \A t \in Tasks : \A a, z \in ReportArgs :
        (/\ Done(t)
         /\ task[t].op = "get_position"
         /\ call[t].line = Reported(a, z)) =>
            IF Plain(a) /\ Plain(z) THEN
                /\ task[t].exc = "none"
                /\ task[t].ret = <<"pos", a, z>>
            ELSE IF ~Plain(a) \/ z.neg THEN
                /\ task[t].exc = "ValueError"
                /\ task[t].msg = MsgPosition \o Report(a, z)
            ELSE
                /\ task[t].exc = "none"
                /\ task[t].ret[2] = a
                /\ task[t].ret[3] # z

\* get_position has returned (39.9, 246.45) from ALT: 39.9 AZ: 246.45
C13_Witness ==
    /\ Done(Caller)
    /\ task[Caller].op = "get_position"
    /\ call[Caller].line = Encode(<<"A", "L", "T", ":", " ", "3", "9", ".", "9", " ", "A", "Z",
                                     ":", " ", "2", "4", "6", ".", "4", "5">>) \o <<10>>
    /\ task[Caller].ret = <<"pos", Finite(FALSE, 399, 1), Finite(FALSE, 24645, 2)>>

\* the text that opens the Parse Error of each parsing operation
ParseErrorPrefix ==
    [get_position |-> MsgPosition, get_temperature |-> MsgTemperature,
     get_humidity |-> MsgHumidity]

\* C14: whenever get_position, get_temperature or get_humidity fails because
\* of what the response line holds, the failure is the operation's Parse Error
\* and carries the whole stripped response, also when the numeric field is
\* made of digits and dots but is no decimal number.
C14_ParseError ==
    \A t \in Tasks :
        (/\ Done(t)
         /\ task[t].op \in DOMAIN ParseErrorPrefix
         /\ call[t].got = 1
         /\ task[t].exc # "none") =>
            /\ task[t].exc = "ValueError"
            /\ task[t].msg = ParseErrorPrefix[task[t].op] \o Response(call[t].line)

\* the distance between x and y is under one tenth
Near(x, y) == Distance(x, y).m * 10 < Pow10(Distance(x, y).e)

\* the operator typed ABORT, in any case, with or without blanks around it
SaidAbort(text) == Upper(Strip(text)) = <<"A", "B", "O", "R", "T">>

\* the polling loop of option 2 has run and is over
LoopOver == main.end # "none" /\ main.gets >= 1

\* what holds of the polling loop whichever way it ends
SlewLoop ==
    /\ main.aborts <= 1
    /\ main.aborts = 1 => SaidAbort(main.said)
    /\ main.pc = "get_position" =>
           task[Caller].op = "get_position" /\ main.gets = main.asks + 1 /\ main.aborts = 0
    /\ main.pc = "input" => main.gets = main.asks + 1 /\ main.aborts = 0
    /\ main.pc = "abort_slew" =>
           task[Caller].op = "abort_slew" /\ main.gets = main.asks /\ main.aborts = 1
    /\ main.end = "completed" => main.aborts = 0 /\ main.gets = main.asks + 1
    /\ main.end = "aborted" => main.aborts = 1 /\ main.gets = main.asks

\* the steps of the polling loop: the test comes before the question, the
\* loop completes on a position near the target only, and after an abort no
\* position is asked for
SlewStep ==
    /\ (main'.end = "completed" /\ main.end # "completed") =>
           /\ main.pc = "get_position"
           /\ Near(task[Caller].ret[2], main.alt) /\ Near(task[Caller].ret[3], main.az)
    /\ (main'.pc = "input" /\ main.pc # "input") =>
           /\ main.pc = "get_position"
           /\ task[Caller].exc = "none"
           /\ ~(Near(task[Caller].ret[2], main.alt) /\ Near(task[Caller].ret[3], main.az))
    /\ (main'.aborts = 1 /\ main.aborts = 0) => main.pc = "input"
    /\ (main.aborts = 1 /\ main'.aborts = 1) => main'.gets = main.gets

\* C15 as stated: the polling loop of option 2 asks for the position once per
\* turn and ends in one of two ways only: the position is near the target on
\* both axes and no ABORT is sent, or the operator typed ABORT and one ABORT
\* is sent.
C15_SlewLoop ==
    /\ SlewLoop
    /\ LoopOver => main.end \in {"completed", "aborted"}

\* C15: the polling loop of option 2 asks for the position once per turn,
\* tests it before it asks the operator, and ends in one of three ways: the
\* position is near the target on both axes (strictly under 0.1) and no ABORT
\* is sent; the operator typed ABORT, one ABORT is sent and no position is
\* asked for after it; or get_position or abort_slew raised.  ABORT is sent
\* only on the operator's word.
C15_SlewLoopEnds ==
    /\ [](SlewLoop /\ (LoopOver => main.end \in {"completed", "aborted", "raised"}))
    /\ [][SlewStep]_vars

\* the operator let the loop poll twice and then typed ABORT between blanks
C15_Witness ==
    /\ main.end = "aborted"
    /\ main.gets = 2
    /\ main.asks = 2
    /\ main.said = <<" ", "A", "B", "O", "R", "T", " ">>
    /\ main.pc = "menu"

\* C16: main() calls close() once on every way out of its try block (choice
\* 10, or an exception no handler catches), never before, and calls nothing
\* after it.
C16_CloseOnce ==
    /\ main.closes <= 1
    /\ main.pc = "done" <=> main.closes = 1
    /\ main.uncaught # "none" => main.pc = "done"
    /\ main.closes = 0 => port = "open"
    /\ main.closes = 1 =>
           /\ port = "closed"
           /\ task[Caller].op = "close"
           /\ task[Caller].pc = "idle"

\* a transport failure under option 3 has ended main(), the port closed once
C16_Witness ==
    /\ main.pc = "done"
    /\ main.choice = <<"3">>
    /\ main.uncaught = "SerialException"
    /\ main.closes = 1
    /\ port = "closed"

\* where main() awaits a call of the client
Awaiting ==
    main.pc \in {"wait_for_ready", "option1", "set_position", "get_position", "abort_slew",
                 "fixed", "sensor"}

\* C17: a Parse Error under option 2, 7 or 8 is caught inside the loop: the
\* menu comes again, the port stays open and the step that catches it sends
\* nothing; a Parse Error under option 1 ends the loop and the port is closed.
C17_ParseErrors ==
    /\ [](/\ main.caught = "ValueError" =>
                /\ main.choice \in {<<"2">>, <<"7">>, <<"8">>}
                /\ main.pc = "menu"
                /\ port = "open"
                /\ main.closes = 0
          /\ main.uncaught = "ValueError" =>
                /\ main.choice = <<"1">>
                /\ main.pc = "done"
                /\ port = "closed")
    /\ [][/\ (main'.caught = "ValueError" /\ main.caught # "ValueError") =>
                 UNCHANGED <<port, tx, task, call, g>>
          /\ (Awaiting /\ Back /\ task[Caller].exc = "ValueError" /\ main' # main) =>
                 IF main.choice = <<"1">> THEN main'.uncaught = "ValueError"
                 ELSE main'.caught = "ValueError" /\ main'.pc = "menu"]_vars

\* a malformed position during the polling of option 2 was caught
C17_Witness ==
    /\ main.caught = "ValueError"
    /\ main.choice = <<"2">>
    /\ main.gets = 2
    /\ main.pc = "menu"
    /\ task[Caller].msg = MsgPosition \o LineGarbage

\* C18: main() writes nothing before wait_for_ready has returned, so a line
\* with the readiness phrase is read before the first write; and a choice
\* outside 1..10 neither writes nor reads.
C18_ReadyFirst ==
    /\ []((g.nW >= 1 \/ call[Caller].writes >= 1 \/ tx # <<>>) =>
              /\ g.readySeq >= 1
              /\ main.pc \notin {"start", "wait_for_ready"})
    /\ [][(main'.turns # main.turns /\ main'.choice \notin Options) =>
              UNCHANGED <<port, tx, rx, rxTag, peer, task, call, g>>]_vars

\* one command went out after the readiness line, the third line the peer
\* printed, and the next choice was not on the menu
C18_Witness ==
    /\ g.nW = 1
    /\ g.readySeq = 3
    /\ main.turns = 2
    /\ main.choice = <<"x">>
    /\ main.pc = "menu"

====
